---- MODULE Spec2Model ----
(***************************************************************************)
(* Single-player Tic Tac Toe (src/script.js): the game state, the click    *)
(* handler, the delayed AI move and the restart button, as a state machine.*)
(* The browser's event loop runs one callback at a time, so every handler  *)
(* is one atomic action.  Timers set with the same delay fire in the order *)
(* in which they were set, so the pending AI timers form a FIFO queue.     *)
(***************************************************************************)
EXTENDS Integers, Sequences, FiniteSets

\* ---- bounds of the model ------------------------------------------------
\* largest number of AI timers that may be pending at once
MaxTimers == 2

\* ---- program constants --------------------------------------------------
PLAYER == "X"
AI == "O"
\* the value '' of an empty cell
Empty == ""
\* JavaScript's null as returned by findWinningMove / held by `chosen`
null == -1
Cells == 0..8
winConditions ==
  << <<0,1,2>>, <<3,4,5>>, <<6,7,8>>,
     <<0,3,6>>, <<1,4,7>>, <<2,5,8>>,
     <<0,4,8>>, <<2,4,6>> >>

VARIABLES
  boardState,    \* Array(9) of '', 'X', 'O'
  gameActive,    \* false when game ended
  isProcessing,  \* true while AI is thinking
  timers,        \* pending setTimeout(..., THINK_DELAY) callbacks, oldest first
  lastOp,        \* history: the callback the event loop ran last
  lastMark,      \* history: the mark written last since the last resetGame
  ret            \* history: the last call of checkWinner / findWinningMove
                 \* made on its own, with its argument and return value

vars == <<boardState, gameActive, isProcessing, timers, lastOp, lastMark, ret>>
\* the program's own state, without the history variables
progVars == <<boardState, gameActive, isProcessing, timers>>

\* ---- helpers ------------------------------------------------------------
Min(S) == CHOOSE x \in S : \A y \in S : x <= y
emptyIndices(b) == {i \in Cells : b[i] = Empty}
Count(b) == Cardinality(Cells \ emptyIndices(b))
CountOf(b, m) == Cardinality({i \in Cells : b[i] = m})

\* line 48: the three cells of winConditions[k] hold the same non-empty mark
comboComplete(b, k) ==
  LET combo == winConditions[k] IN
    /\ b[combo[1]] # Empty
    /\ b[combo[1]] = b[combo[2]]
    /\ b[combo[2]] = b[combo[3]]

\* checkWinner with only the three rows in its table
checkWinner_RowsOnly(b) ==
  LET hits == {k \in 1..3 : comboComplete(b, k)} IN
    IF hits # {} THEN b[winConditions[Min(hits)][1]]
    ELSE IF emptyIndices(b) = {} THEN "draw"
    ELSE "null"

\* checkWinner without its test for a full board
checkWinner_NoDraw(b) ==
  LET hits == {k \in 1..Len(winConditions) : comboComplete(b, k)} IN
    IF hits # {} THEN b[winConditions[Min(hits)][1]]
    ELSE "null"

\* checkWinner testing for a full board before it scans the lines
checkWinner_DrawFirst(b) ==
  LET hits == {k \in 1..Len(winConditions) : comboComplete(b, k)} IN
    IF emptyIndices(b) = {} THEN "draw"
    ELSE IF hits # {} THEN b[winConditions[Min(hits)][1]]
    ELSE "null"

\* 'X' or 'O' if winner, 'draw' if no moves left, "null" if game continues
checkWinner(b) ==
  LET hits == {k \in 1..Len(winConditions) : comboComplete(b, k)} IN
    IF hits # {} THEN b[winConditions[Min(hits)][1]]
    ELSE IF emptyIndices(b) = {} THEN "draw"
    ELSE "null"

\* findWinningMove keeping the last matching line instead of the first
findWinningMove_LastLine(b, player) ==
  LET line(k) == {winConditions[k][1], winConditions[k][2], winConditions[k][3]}
      countPlayer(k) == Cardinality({i \in line(k) : b[i] = player})
      countEmpty(k) == Cardinality({i \in line(k) : b[i] = Empty})
      hits == {k \in 1..Len(winConditions) :
                 countPlayer(k) = 2 /\ countEmpty(k) = 1}
  IN IF hits = {} THEN null
     ELSE LET k == CHOOSE x \in hits : \A y \in hits : x >= y
              j == Min({n \in 1..3 : b[winConditions[k][n]] = Empty})
          IN winConditions[k][j]

\* the helper of aiMove: the empty cell of the first line with two marks of
\* `player` and one empty cell, else null
findWinningMove(b, player) ==
  LET line(k) == {winConditions[k][1], winConditions[k][2], winConditions[k][3]}
      countPlayer(k) == Cardinality({i \in line(k) : b[i] = player})
      countEmpty(k) == Cardinality({i \in line(k) : b[i] = Empty})
      hits == {k \in 1..Len(winConditions) :
                 countPlayer(k) = 2 /\ countEmpty(k) = 1}
  IN IF hits = {} THEN null
     ELSE LET k == Min(hits)
              j == Min({n \in 1..3 : b[winConditions[k][n]] = Empty})
          IN winConditions[k][j]

\* aiChosen with steps 1 and 2 swapped: block before win
aiChosen_BlockFirst(b) ==
  LET win == findWinningMove(b, AI)
      block == findWinningMove(b, PLAYER)
      corners == {i \in {0,2,6,8} : b[i] = Empty}
  IN IF block # null THEN {block}
     ELSE IF win # null THEN {win}
     ELSE IF b[4] = Empty THEN {4}
     ELSE IF corners # {} THEN corners
     ELSE emptyIndices(b)

\* aiChosen without step 2: the player is never blocked
aiChosen_NoBlockStep(b) ==
  LET win == findWinningMove(b, AI)
      corners == {i \in {0,2,6,8} : b[i] = Empty}
  IN IF win # null THEN {win}
     ELSE IF b[4] = Empty THEN {4}
     ELSE IF corners # {} THEN corners
     ELSE emptyIndices(b)

\* aiChosen without step 4: no preference for corners
aiChosen_NoCornerStep(b) ==
  LET win == findWinningMove(b, AI)
      block == findWinningMove(b, PLAYER)
  IN IF win # null THEN {win}
     ELSE IF block # null THEN {block}
     ELSE IF b[4] = Empty THEN {4}
     ELSE emptyIndices(b)

\* aiChosen with step 3 not testing that the center is free
aiChosen_CenterUnchecked(b) ==
  LET win == findWinningMove(b, AI)
      block == findWinningMove(b, PLAYER)
  IN IF win # null THEN {win}
     ELSE IF block # null THEN {block}
     ELSE {4}

\* the values `chosen` may hold after steps 1-5 of aiMove; {} when no cell
\* is available
aiChosen(b) ==
  LET win == findWinningMove(b, AI)
      block == findWinningMove(b, PLAYER)
      corners == {i \in {0,2,6,8} : b[i] = Empty}
  IN IF win # null THEN {win}
     ELSE IF block # null THEN {block}
     ELSE IF b[4] = Empty THEN {4}
     ELSE IF corners # {} THEN corners
     ELSE emptyIndices(b)

\* finishGame leaving gameActive as it is (true at both places of call)
finishGame_KeepsActive == [gameActive |-> TRUE, isProcessing |-> FALSE]

\* finishGame: the two flags it assigns (the rest is display)
finishGame == [gameActive |-> FALSE, isProcessing |-> FALSE]

\* the outcome of aiMove once a cell is chosen: lines 172-188
aiApply(b, ga, ip, chosen) ==
  LET nb == [b EXCEPT ![chosen] = AI]
      result == checkWinner(nb)
  IN IF result = AI \/ result = "draw"
     THEN [boardState |-> nb, gameActive |-> finishGame.gameActive,
           isProcessing |-> finishGame.isProcessing, placed |-> TRUE]
     ELSE [boardState |-> nb, gameActive |-> ga, isProcessing |-> ip,
           placed |-> TRUE]

\* aiMove without its first line
aiMove_NoActiveCheck(b, ga, ip) ==
  IF aiChosen(b) = {}
  THEN IF checkWinner(b) = "draw"
       THEN {[boardState |-> b, gameActive |-> finishGame.gameActive,
              isProcessing |-> finishGame.isProcessing, placed |-> FALSE]}
       ELSE {[boardState |-> b, gameActive |-> ga, isProcessing |-> ip,
              placed |-> FALSE]}
  ELSE {aiApply(b, ga, ip, c) : c \in aiChosen(b)}

\* aiMove with its first test inverted
aiMove_InvertedGuard(b, ga, ip) ==
  IF ga
  THEN {[boardState |-> b, gameActive |-> ga, isProcessing |-> ip,
         placed |-> FALSE]}
  ELSE aiMove_NoActiveCheck(b, ga, ip)

\* aiMove: the set of outcomes (one per value Math.random may select)
aiMove(b, ga, ip) ==
  IF ~ga
  THEN {[boardState |-> b, gameActive |-> ga, isProcessing |-> ip,
         placed |-> FALSE]}
  ELSE IF aiChosen(b) = {}
  THEN IF checkWinner(b) = "draw"
       THEN {[boardState |-> b, gameActive |-> finishGame.gameActive,
              isProcessing |-> finishGame.isProcessing, placed |-> FALSE]}
       ELSE {[boardState |-> b, gameActive |-> ga, isProcessing |-> ip,
              placed |-> FALSE]}
  ELSE {aiApply(b, ga, ip, c) : c \in aiChosen(b)}

\* the statement after aiMove() in the timer callback, re-enabling the game
\* along with the input
afterThink_WrongFlag(r) ==
  [r EXCEPT !.isProcessing = FALSE, !.gameActive = TRUE]

\* the timer callback without the statement after aiMove()
afterThink_NoClear(r) == r

\* the statement after aiMove() in the timer callback: isProcessing = false
afterThink(r) == [r EXCEPT !.isProcessing = FALSE]

\* the early returns of handlePlayerMove without the isProcessing test
moveRejected_IgnoresProcessing(index) ==
  \/ ~gameActive
  \/ boardState[index] # Empty

\* the early returns of handlePlayerMove without the occupied test
moveRejected_IgnoresOccupied(index) ==
  ~gameActive \/ isProcessing

\* the two early returns of handlePlayerMove
moveRejected(index) ==
  \/ ~gameActive \/ isProcessing
  \/ boardState[index] # Empty

\* no call of a pure function recorded
noCall == [fn |-> "none", player |-> Empty, val |-> "null"]

\* ---- initial state: the declarations, then resetGame() at load ----------
Init ==
  /\ boardState = [i \in Cells |-> Empty]
  /\ gameActive = TRUE
  /\ isProcessing = FALSE
  /\ timers = << >>
  /\ lastOp = "load"
  /\ lastMark = Empty
  /\ ret = noCall

\* ---- actions ------------------------------------------------------------
\* a click (or Enter/Space) on cell `index`
handlePlayerMove(index) ==
  IF moveRejected(index)
  THEN /\ lastOp' = "rejected"
       /\ UNCHANGED <<boardState, gameActive, isProcessing, timers, lastMark,
                      ret>>
  ELSE LET nb == [boardState EXCEPT ![index] = PLAYER]
           result == checkWinner(nb)
       IN /\ boardState' = nb
          /\ UNCHANGED ret
          /\ lastOp' = "accepted"
          /\ lastMark' = PLAYER
          /\ IF result = PLAYER \/ result = "draw"
             THEN /\ gameActive' = finishGame.gameActive
                  /\ isProcessing' = finishGame.isProcessing
                  /\ UNCHANGED timers
             ELSE /\ Len(timers) < MaxTimers
                  /\ isProcessing' = TRUE
                  /\ timers' = Append(timers,
                        [pre |-> Count(boardState), stale |-> FALSE])
                  /\ UNCHANGED gameActive

\* the oldest pending timer fires: aiMove(); isProcessing = false
TimerFires ==
  /\ timers # << >>
  /\ \E r0 \in aiMove(boardState, gameActive, isProcessing) :
       LET r == afterThink(r0) IN
         /\ boardState' = r.boardState
         /\ gameActive' = r.gameActive
         /\ isProcessing' = r.isProcessing
         /\ lastMark' = IF r.placed THEN AI ELSE lastMark
  /\ timers' = Tail(timers)
  /\ lastOp' = "timer"
  /\ UNCHANGED ret

\* resetGame with its third assignment missing
resetGame_KeepsProcessing ==
  /\ boardState' = [i \in Cells |-> Empty]
  /\ gameActive' = TRUE
  /\ UNCHANGED isProcessing
  /\ timers' = [k \in 1..Len(timers) |-> [timers[k] EXCEPT !.stale = TRUE]]
  /\ lastOp' = "resetGame"
  /\ lastMark' = Empty
  /\ UNCHANGED ret

\* a click on the restart button; no pending timer is cleared
resetGame ==
  /\ boardState' = [i \in Cells |-> Empty]
  /\ gameActive' = TRUE
  /\ isProcessing' = FALSE
  /\ timers' = [k \in 1..Len(timers) |-> [timers[k] EXCEPT !.stale = TRUE]]
  /\ lastOp' = "resetGame"
  /\ lastMark' = Empty
  /\ UNCHANGED ret

PlayerClick == \E index \in Cells : handlePlayerMove(index)

Next ==
  \/ PlayerClick
  \/ TimerFires
  \/ resetGame

Spec == Init /\ [][Next]_vars

\* the timer callback runs once its delay has elapsed
FairSpec == Spec /\ WF_vars(TimerFires)

\* ---- checkWinner and findWinningMove on every board ----------------------
\* any array of 9 marks, as a caller of the two functions may pass
InitBoards ==
  /\ boardState \in [Cells -> {Empty, PLAYER, AI}]
  /\ gameActive = TRUE
  /\ isProcessing = FALSE
  /\ timers = << >>
  /\ lastOp = "load"
  /\ lastMark = Empty
  /\ ret = noCall

\* a call of checkWinner() on the board
CallCheckWinner ==
  /\ ret' = [fn |-> "checkWinner", player |-> Empty,
             val |-> checkWinner(boardState)]
  /\ UNCHANGED <<boardState, gameActive, isProcessing, timers, lastOp,
                 lastMark>>

\* a call of findWinningMove(player) on the board
CallFindWinningMove ==
  \E player \in {PLAYER, AI} :
    /\ ret' = [fn |-> "findWinningMove", player |-> player,
               val |-> findWinningMove(boardState, player)]
    /\ UNCHANGED <<boardState, gameActive, isProcessing, timers, lastOp,
                   lastMark>>

NextBoards ==
  \/ CallCheckWinner
  \/ CallFindWinningMove

SpecBoards == InitBoards /\ [][NextBoards]_vars

TypeOK ==
  /\ boardState \in [Cells -> {Empty, PLAYER, AI}]
  /\ gameActive \in BOOLEAN
  /\ isProcessing \in BOOLEAN
  /\ timers \in Seq([pre : 0..8, stale : BOOLEAN])
  /\ Len(timers) <= MaxTimers
  /\ lastOp \in {"load", "accepted", "rejected", "timer", "resetGame"}
  /\ ret.fn \in {"none", "checkWinner", "findWinningMove"}
  /\ lastMark \in {Empty, PLAYER, AI}

\* ---- properties ---------------------------------------------------------
\* a step of handlePlayerMove that passed both early returns
PlayerAccepted == PlayerClick /\ lastOp' = "accepted"

\* C1: while isProcessing is set, a call of handlePlayerMove with any index
\* 0..8 changes neither the board, nor gameActive, nor isProcessing, nor the
\* set of scheduled agent moves.
C1_ProcessingRejectsClicks ==
  [][isProcessing =>
       \A index \in Cells : handlePlayerMove(index) => UNCHANGED progVars]_vars

\* a click was rejected in a game that is active and waiting for the agent
C1_Witness ==
  /\ lastOp = "rejected"
  /\ isProcessing
  /\ gameActive
  /\ emptyIndices(boardState) # {}

\* C2: within one game the player never places two PlayerMarks in a row: when
\* a player move is accepted, the mark written last since the last resetGame
\* is not a PlayerMark.
C2_NoTwoPlayerMarksInARow ==
  [][PlayerAccepted => lastMark # PLAYER]_vars

\* the player's second (or later) mark of a game has just been accepted
C2_Witness ==
  /\ lastOp = "accepted"
  /\ CountOf(boardState, PLAYER) >= 2
  /\ CountOf(boardState, AI) >= 1

\* C3: once gameActive is false it stays false under every handlePlayerMove
\* call and every timer firing; only resetGame makes it true again.
C3_TerminalOnlyLeftByReset ==
  [][~gameActive =>
       /\ (PlayerClick \/ TimerFires) => ~gameActive'
       /\ gameActive' => lastOp' = "resetGame"]_vars

\* a timer set before the game ended has fired in the finished game
C3_Witness ==
  /\ ~gameActive
  /\ lastOp = "timer"
  /\ lastMark = PLAYER

\* C4: while the game is Terminal no cell changes until resetGame: every
\* handlePlayerMove call and every timer firing leaves the 9 cells as they are.
C4_TerminalBoardFrozen ==
  [][(~gameActive /\ lastOp' # "resetGame") => boardState' = boardState]_vars

\* a timer has fired in a game the player had won, with cells still empty
C4_Witness ==
  /\ ~gameActive
  /\ lastOp = "timer"
  /\ checkWinner(boardState) = PLAYER
  /\ emptyIndices(boardState) # {}

\* C5: right after resetGame the board is all-Empty, gameActive is true and
\* isProcessing is false, whatever the state it was called in.
C5_ResetClearsState ==
  lastOp = "resetGame" =>
    /\ boardState = [i \in Cells |-> Empty]
    /\ gameActive
    /\ ~isProcessing

\* resetGame was called while an agent move was still pending
C5_Witness ==
  /\ lastOp = "resetGame"
  /\ timers # << >>

\* C6: the first mark placed after any reset is a PlayerMark: a board with a
\* single mark holds an X.
C6_FirstMarkIsPlayer ==
  Count(boardState) = 1 => CountOf(boardState, PLAYER) = 1

\* C7: no reachable board has a complete line of each mark: any two complete
\* lines hold the same mark, so the scan order of checkWinner is immaterial.
C7_OneWinnerAtMost ==
  \A k1, k2 \in 1..Len(winConditions) :
    (comboComplete(boardState, k1) /\ comboComplete(boardState, k2))
      => boardState[winConditions[k1][1]] = boardState[winConditions[k2][1]]

\* the agent has completed a line on a board where the player holds 3 marks
C7_Witness ==
  /\ \E k \in 1..Len(winConditions) :
       /\ comboComplete(boardState, k)
       /\ boardState[winConditions[k][1]] = AI
  /\ CountOf(boardState, PLAYER) >= 3

\* C8: the number of PlayerMarks minus the number of AgentMarks is 0 or 1 in
\* every reachable state.
C8_StrictAlternation ==
  CountOf(boardState, PLAYER) - CountOf(boardState, AI) \in {0, 1}

\* C9: when the agent move scheduled by an accepted player move runs, with no
\* resetGame since that player move, exactly two more cells are non-Empty
\* than before the player move.
C9_TwoMoreCells ==
  [][(TimerFires /\ ~Head(timers).stale)
       => Count(boardState') = Head(timers).pre + 2]_vars

\* C10: handlePlayerMove on a non-Empty cell changes neither the board, nor
\* gameActive, nor isProcessing, and schedules no agent move.
C10_OccupiedCellIsNoOp ==
  [][\A index \in Cells :
       (boardState[index] # Empty /\ handlePlayerMove(index))
         => UNCHANGED progVars]_vars

\* a click was rejected although the game was active and the player's turn
C10_Witness ==
  /\ lastOp = "rejected"
  /\ gameActive
  /\ ~isProcessing
  /\ Count(boardState) >= 2

\* ---- the agent's cascade ------------------------------------------------
\* the three cells of line k all hold mark m
LineAll(b, k, m) == \A n \in 1..3 : b[winConditions[k][n]] = m
\* line k holds exactly two marks m and one Empty cell
Threat(b, k, m) ==
  \E n \in 1..3 :
    /\ b[winConditions[k][n]] = Empty
    /\ \A n2 \in (1..3) \ {n} : b[winConditions[k][n2]] = m
HasThreat(b, m) == \E k \in 1..Len(winConditions) : Threat(b, k, m)
\* the Empty cell of the first line, in the fixed order, that is a threat of m
ThreatCell(b, m) ==
  LET k == CHOOSE k1 \in 1..Len(winConditions) :
             /\ Threat(b, k1, m)
             /\ \A k2 \in 1..(k1 - 1) : ~Threat(b, k2, m)
  IN CHOOSE c \in Cells :
       \E n \in 1..3 : winConditions[k][n] = c /\ b[c] = Empty
\* the agent's timer fires in a game that is still active
AgentMoves == TimerFires /\ gameActive
corners == {0, 2, 6, 8}
edges == {1, 3, 5, 7}

\* C11: when the agent moves on a board where some line holds two AgentMarks
\* and one Empty cell, it plays the Empty cell of the first such line and the
\* game ends with a complete AgentMark line, also when the player has a
\* completing cell.
C11_WinNow ==
  [][(AgentMoves /\ HasThreat(boardState, AI)) =>
       /\ boardState' = [boardState EXCEPT ![ThreatCell(boardState, AI)] = AI]
       /\ ~gameActive'
       /\ \E k \in 1..Len(winConditions) : LineAll(boardState', k, AI)
       /\ \A k \in 1..Len(winConditions) : ~LineAll(boardState', k, PLAYER)]_vars

\* the agent has won by a move that left a completing cell of the player open
C11_Witness ==
  /\ lastOp = "timer"
  /\ lastMark = AI
  /\ ~gameActive
  /\ \E k \in 1..Len(winConditions) : LineAll(boardState, k, AI)
  /\ HasThreat(boardState, PLAYER)

\* C12: when the agent moves on a board where it has no completing cell but
\* some line holds two PlayerMarks and one Empty cell, it plays the Empty cell
\* of the first such line.
C12_Block ==
  [][(AgentMoves /\ ~HasThreat(boardState, AI)
        /\ HasThreat(boardState, PLAYER)) =>
       boardState' =
         [boardState EXCEPT ![ThreatCell(boardState, PLAYER)] = AI]]_vars

\* the agent's second mark is on an edge while corners are free and the game
\* goes on: the move was a block
C12_Witness ==
  /\ lastOp = "timer"
  /\ lastMark = AI
  /\ gameActive
  /\ Count(boardState) = 4
  /\ boardState[4] = AI
  /\ \E e \in edges : boardState[e] = AI

\* C13: when the agent moves on a board where neither mark has a completing
\* cell, it plays cell 4 if it is Empty, else an Empty corner if there is one,
\* and an edge cell only when the center and the four corners are occupied.
C13_CenterCornerEdge ==
  [][(AgentMoves /\ ~HasThreat(boardState, AI)
        /\ ~HasThreat(boardState, PLAYER)) =>
       \E c \in emptyIndices(boardState) :
         /\ boardState' = [boardState EXCEPT ![c] = AI]
         /\ boardState[4] = Empty => c = 4
         /\ (boardState[4] # Empty
               /\ corners \cap emptyIndices(boardState) # {}) => c \in corners
         /\ c \in edges =>
              (corners \cup {4}) \cap emptyIndices(boardState) = {}]_vars

\* the agent has answered the player's opening in the center with a corner
C13_Witness ==
  /\ lastOp = "timer"
  /\ lastMark = AI
  /\ Count(boardState) = 2
  /\ boardState[4] = PLAYER
  /\ \E c \in corners : boardState[c] = AI

\* ---- the two pure functions, on every board -----------------------------
\* C14: findWinningMove(mark) returns null iff no line holds exactly two cells
\* equal to mark and one Empty cell; otherwise it returns the Empty cell of
\* the first such line in the fixed order, for every board.
C14_FindWinningMove ==
  ret.fn = "findWinningMove" =>
    /\ ret.val = null <=> ~HasThreat(boardState, ret.player)
    /\ HasThreat(boardState, ret.player)
         => ret.val = ThreatCell(boardState, ret.player)

\* findWinningMove returned a cell on a board where two lines qualify
C14_Witness ==
  /\ ret.fn = "findWinningMove"
  /\ ret.val # null
  /\ Cardinality({k \in 1..Len(winConditions) :
                    Threat(boardState, k, ret.player)}) >= 2

\* C15: checkWinner returns the mark of a complete line if some line is
\* complete, also on a full board; draw iff no line is complete and no cell is
\* Empty; null iff no line is complete and some cell is Empty.
C15_CheckWinner ==
  ret.fn = "checkWinner" =>
    LET complete == {k \in 1..Len(winConditions) :
                       LineAll(boardState, k, PLAYER)
                         \/ LineAll(boardState, k, AI)}
        full == emptyIndices(boardState) = {}
    IN /\ complete # {} =>
            \E k \in complete : ret.val = boardState[winConditions[k][1]]
       /\ ret.val = "draw" <=> (complete = {} /\ full)
       /\ ret.val = "null" <=> (complete = {} /\ ~full)

\* checkWinner returned a mark on a full board
C15_Witness ==
  /\ ret.fn = "checkWinner"
  /\ emptyIndices(boardState) = {}
  /\ ret.val \in {PLAYER, AI}

\* ---- the controller -----------------------------------------------------
\* C16: whenever an agent timer is pending in an active game, at least one
\* cell is Empty, so aiMove never reaches its 'no available cell' branch.
C16_AgentNeverOnFullBoard ==
  (timers # << >> /\ gameActive) => emptyIndices(boardState) # {}

\* an agent move is pending in an active game with a single Empty cell left
C16_Witness ==
  /\ timers # << >>
  /\ gameActive
  /\ Count(boardState) = 8

\* C17: after an accepted player move that leaves the game InProgress, unless
\* resetGame is called, the agent eventually places an AgentMark and then the
\* game is Terminal or isProcessing is clear; the timer firing that answers
\* places exactly one AgentMark.
C17_AgentAnswers ==
  /\ (lastOp = "accepted" /\ gameActive)
       ~> \/ lastOp = "timer" /\ lastMark = AI
                              /\ (~gameActive \/ ~isProcessing)
          \/ lastOp = "resetGame"
  /\ [][(TimerFires /\ gameActive /\ isProcessing) =>
          /\ CountOf(boardState', AI) = CountOf(boardState, AI) + 1
          /\ CountOf(boardState', PLAYER) = CountOf(boardState, PLAYER)
          /\ ~gameActive' \/ ~isProcessing']_vars

\* the agent has answered and the human can move again
C17_Witness ==
  /\ lastOp = "timer"
  /\ lastMark = AI
  /\ gameActive
  /\ ~isProcessing
  /\ timers = << >>
  /\ CountOf(boardState, PLAYER) = CountOf(boardState, AI)

\* C18: gameActive is true iff no line is complete and at least one cell is
\* Empty.
C18_ActiveMirrorsStatus ==
  gameActive <=>
    /\ \A k \in 1..Len(winConditions) :
         ~LineAll(boardState, k, PLAYER) /\ ~LineAll(boardState, k, AI)
    /\ emptyIndices(boardState) # {}

\* the game has ended in a draw
C18_Witness ==
  /\ ~gameActive
  /\ emptyIndices(boardState) = {}
  /\ \A k \in 1..Len(winConditions) :
       ~LineAll(boardState, k, PLAYER) /\ ~LineAll(boardState, k, AI)

\* C19: the number of pending agent timers is 1 when isProcessing is set and
\* 0 when it is clear.
C19_ProcessingTracksTimers ==
  Len(timers) = IF isProcessing THEN 1 ELSE 0

\* C20: a mark is only written to an Empty cell: a non-Empty cell keeps its
\* mark in every step but resetGame.
C20_WritesOnlyToEmpty ==
  [][\A i \in Cells :
       boardState[i] # Empty =>
         (boardState'[i] = boardState[i] \/ lastOp' = "resetGame")]_vars

\* the agent has written its third mark or later and the game goes on
C20_Witness ==
  /\ lastOp = "timer"
  /\ lastMark = AI
  /\ gameActive
  /\ CountOf(boardState, AI) >= 3

====
